---- MODULE Spec2Model ----
(***************************************************************************)
(* rocBLAS level-1 SCAL example (Libraries/rocBLAS/level_1/scal/main.cpp). *)
(*                                                                         *)
(* main() is modelled as a sequential program counter walking the fixed    *)
(* statement order of the source, plus one device-side action for the      *)
(* asynchronous rocblas_sscal kernel.                                      *)
(*                                                                         *)
(* Numbers.  rocblas_int is a 32-bit signed int and size_t is 64 bits.     *)
(* Products of two ints are computed exactly, limb by limb (base 256), so  *)
(* that the mathematical product, the int result and the size_t it is      *)
(* widened to can all be told apart.  A float is represented by the        *)
(* integer number of FLT_EPSILON (2^-23) units it holds: 1.0f is One.      *)
(* alpha is an integer-valued float.                                       *)
(***************************************************************************)
EXTENDS Integers, Sequences, FiniteSets, TLC

VARIABLES
    pc,        \* statement main() is about to execute, or a terminal state
    incx,      \* parser.get<int>("x")
    n,         \* parser.get<int>("n")
    h_alpha,   \* parser.get<float>("a")
    size_x,    \* const size_t size_x, as 8 limbs (least significant first)
    h_x,       \* std::vector<float> h_x, indexed from 0
    h_x_gold,  \* std::vector<float> h_x_gold, indexed from 0
    i,         \* loop variable of the CPU reference loop
    handle,    \* rocblas_handle: "none", "live", "destroyed"
    d_mem,     \* device allocation d_x: "none", "allocated", "freed"
    d_x,       \* contents of the device buffer, indexed from 0
    kernel,    \* the SCAL kernel on the device: "idle", "inflight", "finished"
    errors,    \* unsigned int errors
    exit_code, \* value returned from main()
    out,       \* lines written to std::cout, in order
    trace,     \* history: the steps of main() executed so far, in order
    written,   \* history: indices of h_x_gold the reference loop has stored to
    deviation, \* history: what the device added to the exact SCAL result
    failed,    \* history: the external calls that returned an error status
    misuse,    \* history: a handle or device buffer was used while not live
    ub         \* history: an out-of-range element access has been executed

vars == <<pc, incx, n, h_alpha, size_x, h_x, h_x_gold, i, handle, d_mem, d_x,
          kernel, errors, exit_code, out, trace, written, deviation, failed,
          misuse, ub>>

(***************************************************************************)
(* Bounds of the model and constants of the program.                       *)
(***************************************************************************)
MinArg == 1      \* smallest argument tried is -MinArg
MaxN == 5        \* largest ordinary element count tried
MaxIncx == 2     \* largest ordinary stride tried
WideIncx == 1431655766  \* a stride whose product with 2 or 3 leaves the int range

LimbBase == 256  \* ints are 4 limbs, size_t is 8 limbs
One == 8388608   \* 1.0f in units of std::numeric_limits<float>::epsilon()
eps == 10        \* 10.f * epsilon, in the same units

AlphaVals == {-1, 0, 1, 3}

\* The (n, incx) pairs supplied on the command line.
ArgPairs ==
    ((-MinArg .. MaxN) \X (-MinArg .. MaxIncx)) \cup {<<2, WideIncx>>, <<3, WideIncx>>}

(***************************************************************************)
(* Exact integer arithmetic on limbs.                                      *)
(***************************************************************************)
Abs(x) == IF x < 0 THEN -x ELSE x

\* Limb k (0..3) of a non-negative int.
Limb(x, k) ==
    CASE k = 0 -> x % LimbBase
      [] k = 1 -> (x \div LimbBase) % LimbBase
      [] k = 2 -> (x \div (LimbBase * LimbBase)) % LimbBase
      [] k = 3 -> (x \div (LimbBase * LimbBase * LimbBase)) % LimbBase
      [] OTHER -> 0

\* Sum of the limb products that land in column k of a * b.
ColSum(a, b, k) ==
    LET P(p, q) == IF q >= 0 /\ q <= 3 THEN Limb(a, p) * Limb(b, q) ELSE 0
    IN  P(0, k) + P(1, k - 1) + P(2, k - 2) + P(3, k - 3)

RECURSIVE Carry(_, _, _)
Carry(a, b, k) ==
    IF k = 0 THEN 0 ELSE (ColSum(a, b, k - 1) + Carry(a, b, k - 1)) \div LimbBase

\* The 8 limbs of a non-negative int.
ToLimbs(x) == [k \in 0 .. 7 |-> Limb(x, k)]

\* Both operands are below 2^15, so their product is below 2^30.
Short(a, b) == a < LimbBase * (LimbBase \div 2) /\ b < LimbBase * (LimbBase \div 2)

\* The mathematical product of two non-negative ints, as 8 limbs: directly
\* when it is small, by long multiplication otherwise.
Wide(a, b) ==
    IF Short(a, b) THEN ToLimbs(a * b)
    ELSE [k \in 0 .. 7 |-> (ColSum(a, b, k) + Carry(a, b, k)) % LimbBase]

\* The value fits a non-negative 32-bit signed int.
Fits31(w) == (\A k \in 4 .. 7 : w[k] = 0) /\ w[3] < LimbBase \div 2

\* The low 32 bits read as a two's-complement int.
Low32(w) ==
    w[0] + LimbBase * w[1] + LimbBase * LimbBase * w[2]
    + LimbBase * LimbBase * LimbBase
      * (IF w[3] >= LimbBase \div 2 THEN w[3] - LimbBase ELSE w[3])

\* int -> size_t: the low 32 bits, sign-extended to 64.
SignExtend(w) ==
    [k \in 0 .. 7 |->
        IF k <= 3 THEN w[k]
        ELSE IF w[3] >= LimbBase \div 2 THEN LimbBase - 1 ELSE 0]

\* The int a * b evaluates to when the product stays in range.
Mul32(a, b) == Low32(Wide(a, b))

\* The float holding the integer j.
F(j) == j * One

(***************************************************************************)
(* The statement order of main().                                          *)
(***************************************************************************)
\* Variant order: the releases placed before the device-to-host copy.
FlowFreeBeforeCopyBack ==
    << "check_incx", "check_n", "size", "alloc", "gold", "reference",
       "create_handle", "malloc", "h2d", "ptrmode", "sscal", "destroy", "free",
       "d2h", "compare", "report" >>

Flow ==
    << "check_incx", "check_n", "size", "alloc", "gold", "reference",
       "create_handle", "malloc", "h2d", "ptrmode", "sscal", "d2h", "destroy",
       "free", "compare", "report" >>

Pos(s) == CHOOSE k \in 1 .. Len(Flow) : Flow[k] = s

\* The statement after s; "done" after the last one.
After(s) == IF Pos(s) = Len(Flow) THEN "done" ELSE Flow[Pos(s) + 1]

Terminal == {"done", "aborted", "crashed"}


(***************************************************************************)
(* Pure helpers of the program.                                            *)
(***************************************************************************)
\* The two parameter checks.
InvalidIncx(x) == x <= 0

\* Variant check: n < 0.
InvalidNStrict(c) == c < 0

InvalidN(c) == c <= 0

\* const size_t size_x = n * incx: the int product, widened.
SizeOf(cnt, inc) == SignExtend(Wide(cnt, inc))

\* The number of elements a vector of size_x elements holds.
Length(sz) == Low32(sz)

\* std::vector<float>(size_x) can be built: the ints that wrapped to a
\* negative value exceed max_size() once widened.
Allocatable(sz) == Fits31(sz)

\* Variant fill: the sequence 1, 2, 3, ...
IotaFromOne(len) == [j \in 0 .. len - 1 |-> F(j + 1)]

\* std::iota(h_x.begin(), h_x.end(), 0.f)
Iota(len) == [j \in 0 .. len - 1 |-> F(j)]

\* Variant index: the stride is ignored.
IndexDense(k, inc) == k

\* The element index i * incx of the loop, as an int.
IndexOf(k, inc) == Mul32(k, inc)

\* i * incx stays in the int range.
IndexDefined(k, inc) == Fits31(Wide(k, inc))

\* v[j] exists.
InRange(v, j) == j \in DOMAIN v

\* Variant element operation: h_alpha + h_x[...]
ScaledBySum(a, x) == a * One + x

\* h_alpha * h_x[...]
Scaled(a, x) == a * x

\* ROCBLAS_CHECK / HIP_CHECK: a status other than success ends the program.
Check(status, next) == IF status = "success" THEN next ELSE "aborted"

\* Variant wrapping: the status of hipFree is not inspected.
CheckedExceptFree(step) == step # "free"

\* main() passes the status of this call to a CHECK macro.
Checked(step) == TRUE

\* Where main() continues after the call made at step returned status.
Continue(step, status, next) == IF Checked(step) THEN Check(status, next) ELSE next

Statuses == {"success", "error"}

\* What rocblas_sscal(handle, cnt, &a, v, inc) leaves in a buffer v: element
\* k * inc is multiplied by a for every k in [0, cnt).
Sscal(v, cnt, inc, a) ==
    [j \in DOMAIN v |->
        IF \E k \in 0 .. cnt - 1 : IndexDefined(k, inc) /\ IndexOf(k, inc) = j
        THEN Scaled(a, v[j])
        ELSE v[j]]

\* Every element the kernel addresses lies in the buffer.
KernelInRange(v, cnt, inc) ==
    \A k \in 0 .. cnt - 1 : IndexDefined(k, inc) /\ InRange(v, IndexOf(k, inc))

\* A device result that is off by delta at positions lo..hi.
Deviate(v, dev) ==
    [j \in DOMAIN v |->
        IF dev.lo <= j /\ j <= dev.hi THEN v[j] + dev.delta ELSE v[j]]

NoDeviation == [lo |-> 0, hi |-> -1, delta |-> 0]

Deltas == {-(eps + 1), eps, eps + 1}

Deviations(v) ==
    {NoDeviation}
    \cup {dev \in [lo : DOMAIN v, hi : DOMAIN v, delta : Deltas] : dev.lo <= dev.hi}

\* Variant comparison: the difference is taken without std::fabs.
MismatchSigned(x, g) == IF x - g > eps THEN 1 ELSE 0

\* errors += std::fabs(h_x[i] - h_x_gold[i]) > eps
Mismatch(x, g) == IF Abs(x - g) > eps THEN 1 ELSE 0

\* The comparison loop over i in [0, len).
RECURSIVE CountErrors(_, _, _)
CountErrors(x, g, len) ==
    IF len = 0 THEN 0
    ELSE CountErrors(x, g, len - 1) + Mismatch(x[len - 1], g[len - 1])

\* report_validation_result(errors)
ReportLine(e) == IF e = 0 THEN "Validation passed" ELSE "Validation failed"

ReportCode(e) == e

\* Variant transfer: the copy does not wait for the kernel.
D2HNoWait == TRUE

\* The result transfer halts the host until the kernel's results are ready.
D2HReady == kernel # "inflight"

(***************************************************************************)
(* Initial state: the arguments are parsed, nothing else has happened.     *)
(***************************************************************************)
Empty == [j \in {} |-> 0]

Init ==
    /\ pc = "check_incx"
    /\ \E a \in ArgPairs : n = a[1] /\ incx = a[2]
    /\ h_alpha \in AlphaVals
    /\ size_x = ToLimbs(0)
    /\ h_x = Empty
    /\ h_x_gold = Empty
    /\ i = 0
    /\ handle = "none"
    /\ d_mem = "none"
    /\ d_x = Empty
    /\ kernel = "idle"
    /\ errors = 0
    /\ exit_code = 0
    /\ out = << >>
    /\ trace = << >>
    /\ written = {}
    /\ deviation = NoDeviation
    /\ failed = {}
    /\ misuse = FALSE
    /\ ub = FALSE

(***************************************************************************)
(* Host statements, in source order.                                       *)
(***************************************************************************)
\* if(incx <= 0) { report; return 0; }
CheckIncx ==
    /\ pc = "check_incx"
    /\ trace' = Append(trace, "check_incx")
    /\ IF InvalidIncx(incx)
       THEN /\ out' = Append(out, "Value of 'x' should be greater than 0")
            /\ exit_code' = 0
            /\ pc' = "done"
       ELSE /\ pc' = After("check_incx")
            /\ UNCHANGED <<out, exit_code>>
    /\ UNCHANGED <<incx, n, h_alpha, size_x, h_x, h_x_gold, i, handle, d_mem, d_x,
                   kernel, errors, written, deviation, failed, misuse, ub>>

\* if(n <= 0) { report; return 0; }
CheckN ==
    /\ pc = "check_n"
    /\ trace' = Append(trace, "check_n")
    /\ IF InvalidN(n)
       THEN /\ out' = Append(out, "Value of 'n' should be greater than 0")
            /\ exit_code' = 0
            /\ pc' = "done"
       ELSE /\ pc' = After("check_n")
            /\ UNCHANGED <<out, exit_code>>
    /\ UNCHANGED <<incx, n, h_alpha, size_x, h_x, h_x_gold, i, handle, d_mem, d_x,
                   kernel, errors, written, deviation, failed, misuse, ub>>

\* const size_t size_x = n * incx.  A product outside the int range is
\* undefined: the build either keeps the low 32 bits or traps.
ComputeSize ==
    /\ pc = "size"
    /\ trace' = Append(trace, "size")
    /\ IF Fits31(Wide(n, incx))
       THEN /\ size_x' = SizeOf(n, incx)
            /\ pc' = After("size")
            /\ ub' = ub
       ELSE /\ ub' = TRUE
            /\ \/ size_x' = SizeOf(n, incx) /\ pc' = After("size")
               \/ size_x' = size_x /\ pc' = "crashed"
    /\ UNCHANGED <<incx, n, h_alpha, h_x, h_x_gold, i, handle, d_mem, d_x, kernel,
                   errors, exit_code, out, written, deviation, failed, misuse>>

\* std::vector<float> h_x(size_x); std::iota(...); print the input vector.
\* A size beyond max_size() throws std::length_error, which nothing catches.
BuildHostVector ==
    /\ pc = "alloc"
    /\ trace' = Append(trace, "alloc")
    /\ IF Allocatable(size_x)
       THEN /\ h_x' = Iota(Length(size_x))
            /\ out' = Append(out, "Input Vector x")
            /\ pc' = After("alloc")
       ELSE /\ pc' = "crashed"
            /\ UNCHANGED <<h_x, out>>
    /\ UNCHANGED <<incx, n, h_alpha, size_x, h_x_gold, i, handle, d_mem, d_x, kernel,
                   errors, exit_code, written, deviation, failed, misuse, ub>>

\* std::vector<float> h_x_gold(h_x);
CopyGold ==
    /\ pc = "gold"
    /\ trace' = Append(trace, "gold")
    /\ h_x_gold' = h_x
    /\ i' = 0
    /\ pc' = After("gold")
    /\ UNCHANGED <<incx, n, h_alpha, size_x, h_x, handle, d_mem, d_x, kernel, errors,
                   exit_code, out, written, deviation, failed, misuse, ub>>

\* One iteration of: for(int i = 0; i < n; i++) h_x_gold[i*incx] = h_alpha * h_x[i*incx];
\* An index outside the int range or outside the vectors is undefined: the
\* access either faults or touches memory that belongs to neither vector.
ReferenceStep ==
    /\ pc = "reference"
    /\ i < n
    /\ IF IndexDefined(i, incx) /\ InRange(h_x, IndexOf(i, incx))
                                /\ InRange(h_x_gold, IndexOf(i, incx))
       THEN /\ h_x_gold' = [h_x_gold EXCEPT
                               ![IndexOf(i, incx)] = Scaled(h_alpha, h_x[IndexOf(i, incx)])]
            /\ written' = written \cup {IndexOf(i, incx)}
            /\ i' = i + 1
            /\ pc' = pc
            /\ ub' = ub
       ELSE /\ ub' = TRUE
            /\ UNCHANGED <<h_x_gold, written>>
            /\ \/ i' = i + 1 /\ pc' = pc
               \/ i' = i /\ pc' = "crashed"
    /\ UNCHANGED <<incx, n, h_alpha, size_x, h_x, handle, d_mem, d_x, kernel, errors,
                   exit_code, out, trace, deviation, failed, misuse>>

\* The loop condition i < n fails.
ReferenceDone ==
    /\ pc = "reference"
    /\ ~(i < n)
    /\ trace' = Append(trace, "reference")
    /\ pc' = After("reference")
    /\ UNCHANGED <<incx, n, h_alpha, size_x, h_x, h_x_gold, i, handle, d_mem, d_x,
                   kernel, errors, exit_code, out, written, deviation, failed, misuse,
                   ub>>

(***************************************************************************)
(* Calls into rocBLAS and the HIP runtime.  Each returns a status that the *)
(* CHECK macro inspects; a failed call leaves its output untouched.        *)
(***************************************************************************)
\* ROCBLAS_CHECK(rocblas_create_handle(&handle));
CreateHandle ==
    /\ pc = "create_handle"
    /\ trace' = Append(trace, "create_handle")
    /\ \E st \in Statuses :
        /\ handle' = IF st = "success" THEN "live" ELSE handle
        /\ failed' = IF st = "success" THEN failed ELSE failed \cup {"create_handle"}
        /\ pc' = Continue("create_handle", st, After("create_handle"))
    /\ UNCHANGED <<incx, n, h_alpha, size_x, h_x, h_x_gold, i, d_mem, d_x, kernel,
                   errors, exit_code, out, written, deviation, misuse, ub>>

\* HIP_CHECK(hipMalloc(&d_x, size_x * sizeof(float)));
DeviceMalloc ==
    /\ pc = "malloc"
    /\ trace' = Append(trace, "malloc")
    /\ \E st \in Statuses :
        /\ d_mem' = IF st = "success" THEN "allocated" ELSE d_mem
        /\ failed' = IF st = "success" THEN failed ELSE failed \cup {"malloc"}
        /\ pc' = Continue("malloc", st, After("malloc"))
    /\ UNCHANGED <<incx, n, h_alpha, size_x, h_x, h_x_gold, i, handle, d_x, kernel,
                   errors, exit_code, out, written, deviation, misuse, ub>>

\* HIP_CHECK(hipMemcpy(d_x, h_x.data(), ..., hipMemcpyHostToDevice));
CopyToDevice ==
    /\ pc = "h2d"
    /\ trace' = Append(trace, "h2d")
    /\ misuse' = (misuse \/ d_mem # "allocated")
    /\ \E st \in Statuses :
        /\ d_x' = IF st = "success" THEN h_x ELSE d_x
        /\ failed' = IF st = "success" THEN failed ELSE failed \cup {"h2d"}
        /\ pc' = Continue("h2d", st, After("h2d"))
    /\ UNCHANGED <<incx, n, h_alpha, size_x, h_x, h_x_gold, i, handle, d_mem, kernel,
                   errors, exit_code, out, written, deviation, ub>>

\* ROCBLAS_CHECK(rocblas_set_pointer_mode(handle, rocblas_pointer_mode_host));
SetPointerMode ==
    /\ pc = "ptrmode"
    /\ trace' = Append(trace, "ptrmode")
    /\ misuse' = (misuse \/ handle # "live")
    /\ \E st \in Statuses :
        /\ failed' = IF st = "success" THEN failed ELSE failed \cup {"ptrmode"}
        /\ pc' = Continue("ptrmode", st, After("ptrmode"))
    /\ UNCHANGED <<incx, n, h_alpha, size_x, h_x, h_x_gold, i, handle, d_mem, d_x,
                   kernel, errors, exit_code, out, written, deviation, ub>>

\* ROCBLAS_CHECK(rocblas_sscal(handle, n, &h_alpha, d_x, incx));
\* A successful call has queued the kernel; it has not run yet.
IssueSscal ==
    /\ pc = "sscal"
    /\ trace' = Append(trace, "sscal")
    /\ misuse' = (misuse \/ handle # "live" \/ d_mem # "allocated")
    /\ \E st \in Statuses :
        /\ kernel' = IF st = "success" THEN "inflight" ELSE kernel
        /\ failed' = IF st = "success" THEN failed ELSE failed \cup {"sscal"}
        /\ pc' = Continue("sscal", st, After("sscal"))
    /\ UNCHANGED <<incx, n, h_alpha, size_x, h_x, h_x_gold, i, handle, d_mem, d_x,
                   errors, exit_code, out, written, deviation, ub>>

\* The device runs the queued kernel.  The library is outside the program:
\* its result is the exact strided scale, possibly off by a deviation.  A
\* kernel told to address elements outside the buffer either faults or
\* scales the elements that exist.
KernelRun ==
    /\ kernel = "inflight"
    /\ pc \notin Terminal
    /\ misuse' = (misuse \/ d_mem # "allocated")
    /\ IF KernelInRange(d_x, n, incx)
       THEN /\ \E dev \in Deviations(d_x) :
                /\ d_x' = Deviate(Sscal(d_x, n, incx, h_alpha), dev)
                /\ deviation' = dev
            /\ kernel' = "finished"
            /\ ub' = ub
       ELSE /\ ub' = TRUE
            /\ deviation' = deviation
            /\ \/ d_x' = Sscal(d_x, n, incx, h_alpha) /\ kernel' = "finished"
               \/ d_x' = d_x /\ kernel' = "faulted"
    /\ UNCHANGED <<pc, incx, n, h_alpha, size_x, h_x, h_x_gold, i, handle, d_mem,
                   errors, exit_code, out, trace, written, failed>>

\* HIP_CHECK(hipMemcpy(h_x.data(), d_x, ..., hipMemcpyDeviceToHost));
\* The copy waits for the kernel; a kernel that faulted makes it fail.
CopyToHost ==
    /\ pc = "d2h"
    /\ D2HReady
    /\ trace' = Append(trace, "d2h")
    /\ misuse' = (misuse \/ d_mem # "allocated")
    /\ \E st \in Statuses :
        /\ kernel = "faulted" => st = "error"
        /\ h_x' = IF st = "success" THEN d_x ELSE h_x
        /\ failed' = IF st = "success" THEN failed ELSE failed \cup {"d2h"}
        /\ pc' = Continue("d2h", st, After("d2h"))
    /\ UNCHANGED <<incx, n, h_alpha, size_x, h_x_gold, i, handle, d_mem, d_x, kernel,
                   errors, exit_code, out, written, deviation, ub>>

\* ROCBLAS_CHECK(rocblas_destroy_handle(handle));
DestroyHandle ==
    /\ pc = "destroy"
    /\ trace' = Append(trace, "destroy")
    /\ misuse' = (misuse \/ handle # "live")
    /\ \E st \in Statuses :
        /\ handle' = IF st = "success" THEN "destroyed" ELSE handle
        /\ failed' = IF st = "success" THEN failed ELSE failed \cup {"destroy"}
        /\ pc' = Continue("destroy", st, After("destroy"))
    /\ UNCHANGED <<incx, n, h_alpha, size_x, h_x, h_x_gold, i, d_mem, d_x, kernel,
                   errors, exit_code, out, written, deviation, ub>>

\* HIP_CHECK(hipFree(d_x));
DeviceFree ==
    /\ pc = "free"
    /\ trace' = Append(trace, "free")
    /\ misuse' = (misuse \/ d_mem # "allocated")
    /\ \E st \in Statuses :
        /\ d_mem' = IF st = "success" THEN "freed" ELSE d_mem
        /\ failed' = IF st = "success" THEN failed ELSE failed \cup {"free"}
        /\ pc' = Continue("free", st, After("free"))
    /\ UNCHANGED <<incx, n, h_alpha, size_x, h_x, h_x_gold, i, handle, d_x, kernel,
                   errors, exit_code, out, written, deviation, ub>>

(***************************************************************************)
(* Validation.                                                             *)
(***************************************************************************)
\* unsigned int errors = 0; for(size_t i = 0; i < size_x; i++) errors += ...;
Compare ==
    /\ pc = "compare"
    /\ trace' = Append(trace, "compare")
    /\ errors' = CountErrors(h_x, h_x_gold, Length(size_x))
    /\ pc' = After("compare")
    /\ UNCHANGED <<incx, n, h_alpha, size_x, h_x, h_x_gold, i, handle, d_mem, d_x,
                   kernel, exit_code, out, written, deviation, failed, misuse, ub>>

\* return report_validation_result(errors);
Report ==
    /\ pc = "report"
    /\ trace' = Append(trace, "report")
    /\ out' = Append(out, ReportLine(errors))
    /\ exit_code' = ReportCode(errors)
    /\ pc' = After("report")
    /\ UNCHANGED <<incx, n, h_alpha, size_x, h_x, h_x_gold, i, handle, d_mem, d_x,
                   kernel, errors, written, deviation, failed, misuse, ub>>

Next ==
    \/ CheckIncx
    \/ CheckN
    \/ ComputeSize
    \/ BuildHostVector
    \/ CopyGold
    \/ ReferenceStep
    \/ ReferenceDone
    \/ CreateHandle
    \/ DeviceMalloc
    \/ CopyToDevice
    \/ SetPointerMode
    \/ IssueSscal
    \/ KernelRun
    \/ CopyToHost
    \/ DestroyHandle
    \/ DeviceFree
    \/ Compare
    \/ Report

Spec == Init /\ [][Next]_vars

(***************************************************************************)
(* Properties.                                                             *)
(***************************************************************************)
Executed(s) == \E k \in 1 .. Len(trace) : trace[k] = s

Count(s) == Cardinality({k \in 1 .. Len(trace) : trace[k] = s})

Where(s) == CHOOSE k \in 1 .. Len(trace) : trace[k] = s

\* A tuple of integers as a float vector indexed from 0.
Vec(t) == [j \in 0 .. Len(t) - 1 |-> F(t[j + 1])]

C2_ScaledEverywhere ==
    (/\ pc = "done" /\ Executed("report")
     /\ n > 0 /\ incx > 0
     /\ failed = {} /\ Abs(deviation.delta) <= eps)
    => /\ \A k \in 0 .. n - 1 :
            /\ IndexDefined(k, incx)
            /\ IndexOf(k, incx) \in DOMAIN h_x_gold
            /\ IndexOf(k, incx) \in DOMAIN h_x
            /\ h_x_gold[IndexOf(k, incx)] = h_alpha * F(IndexOf(k, incx))
            /\ Abs(h_x[IndexOf(k, incx)] - h_alpha * F(IndexOf(k, incx))) <= eps
       /\ errors = 0

\* C3: with incx <= 0 or n <= 0 the run never leaves the parameter checks:
\* no vector is built, the loop does not run, no accelerator step happens,
\* and it ends returning 0 after one message naming the parameter.
C3_InvalidShortCircuit ==
    (incx <= 0 \/ n <= 0) =>
        /\ pc \in {"check_incx", "check_n", "done"}
        /\ \A k \in 1 .. Len(trace) : trace[k] \in {"check_incx", "check_n"}
        /\ h_x = Empty /\ h_x_gold = Empty /\ d_x = Empty
        /\ i = 0 /\ written = {} /\ errors = 0
        /\ handle = "none" /\ d_mem = "none" /\ kernel = "idle"
        /\ failed = {} /\ ~misuse /\ ~ub
        /\ exit_code = 0
        /\ pc = "done" =>
               out = << IF incx <= 0 THEN "Value of 'x' should be greater than 0"
                                     ELSE "Value of 'n' should be greater than 0" >>
        /\ pc # "done" => out = << >>

C3_Witness ==
    /\ pc = "done"
    /\ incx > 0 /\ n = 0
    /\ trace = << "check_incx", "check_n" >>
    /\ exit_code = 0

\* C4: with n = 5, incx = 2, alpha = 3 the input vector is 0..9, the
\* reference stores to indices 0, 2, 4, 6, 8 only, and the result (of the
\* reference, and of an exact device) is [0,1,6,3,12,5,18,7,24,9].
C4_Example ==
    (n = 5 /\ incx = 2 /\ h_alpha = 3) =>
        /\ (Executed("alloc") /\ ~Executed("d2h")) =>
               h_x = Vec(<< 0, 1, 2, 3, 4, 5, 6, 7, 8, 9 >>)
        /\ Executed("reference") =>
               /\ h_x_gold = Vec(<< 0, 1, 6, 3, 12, 5, 18, 7, 24, 9 >>)
               /\ written = {0, 2, 4, 6, 8}
        /\ (Executed("d2h") /\ failed = {} /\ deviation = NoDeviation) =>
               h_x = Vec(<< 0, 1, 6, 3, 12, 5, 18, 7, 24, 9 >>)

C4_Witness ==
    /\ pc = "done"
    /\ n = 5 /\ incx = 2 /\ h_alpha = 3
    /\ deviation = NoDeviation /\ failed = {}
    /\ h_x = h_x_gold
    /\ h_x_gold[8] = F(24)
    /\ errors = 0

C6_FailureIsFatal ==
    /\ failed # {} =>
           /\ pc = "aborted"
           /\ Cardinality(failed) = 1
           /\ trace[Len(trace)] \in failed
           /\ \A k \in 1 .. Len(out) : out[k] = "Input Vector x"
    /\ pc = "aborted" => failed # {}
    /\ \A k \in 1 .. Len(trace) : Count(trace[k]) = 1

C6_Witness ==
    /\ pc = "aborted"
    /\ failed = {"sscal"}
    /\ trace[Len(trace)] = "sscal"
    /\ kernel = "idle"
    /\ handle = "live" /\ d_mem = "allocated"

\* C7: the steps executed are always an initial part of the fixed order
\* checks, size, build host vector, copy, reference, create handle, malloc,
\* host-to-device, pointer mode, scale call, device-to-host, destroy, free,
\* compare, report; the device-to-host copy never completes while the kernel
\* is in flight, and the comparison reads what the finished kernel left.
C7_FixedOrder ==
    LET Order == << "check_incx", "check_n", "size", "alloc", "gold", "reference",
                    "create_handle", "malloc", "h2d", "ptrmode", "sscal", "d2h",
                    "destroy", "free", "compare", "report" >>
    IN  /\ Len(trace) <= Len(Order)
        /\ \A k \in 1 .. Len(trace) : trace[k] = Order[k]
        /\ Executed("d2h") => kernel \in {"finished", "faulted"}
        /\ Executed("compare") => /\ kernel = "finished"
                                  /\ h_x = d_x

C7_Witness ==
    /\ pc = "done"
    /\ Len(trace) = 16
    /\ kernel = "finished"
    /\ h_alpha = 3 /\ n = 2 /\ incx = 1
    /\ h_x = Vec(<< 0, 3 >>)

C9_SizeIsProduct ==
    (Executed("size") /\ pc # "crashed") =>
        /\ size_x = Wide(n, incx)
        /\ (pc = "reference" /\ i < n) =>
               /\ IndexDefined(i, incx)
               /\ IndexOf(i, incx) \in 0 .. Length(size_x) - 1

\* C10: the handle and the device buffer are each created at most once and
\* released at most once and are never used unless live; a run that ends
\* without a failed call created and released each exactly once, with both
\* releases after the device-to-host copy and before the comparison; a run
\* with an invalid parameter creates neither.
C10_Lifecycle ==
    /\ Count("create_handle") <= 1 /\ Count("malloc") <= 1
    /\ Count("destroy") <= 1 /\ Count("free") <= 1
    /\ ~misuse
    /\ handle = "live" <=> (Executed("create_handle") /\ "create_handle" \notin failed
                            /\ ~(Executed("destroy") /\ "destroy" \notin failed))
    /\ d_mem = "allocated" <=> (Executed("malloc") /\ "malloc" \notin failed
                                /\ ~(Executed("free") /\ "free" \notin failed))
    /\ (pc = "done" /\ n > 0 /\ incx > 0) =>
           /\ Count("create_handle") = 1 /\ Count("malloc") = 1
           /\ Count("destroy") = 1 /\ Count("free") = 1
           /\ handle = "destroyed" /\ d_mem = "freed"
           /\ Where("d2h") < Where("destroy") /\ Where("destroy") < Where("compare")
           /\ Where("d2h") < Where("free") /\ Where("free") < Where("compare")
    /\ (n <= 0 \/ incx <= 0) =>
           /\ handle = "none" /\ d_mem = "none"
           /\ ~Executed("create_handle") /\ ~Executed("malloc")

C10_Witness ==
    /\ pc = "done"
    /\ n > 0 /\ incx > 0
    /\ failed = {}
    /\ handle = "destroyed" /\ d_mem = "freed"
    /\ Executed("compare")

====
